---- MODULE Spec2Model ----
(***************************************************************************)
(* Model of two_way_sms.py: the SMS reply pipeline of EducationalChatbot   *)
(* (get_gemini_response, handle_incoming_sms, send_message) served by      *)
(* sms_callback in one thread per request, and the USSD menu interpreter   *)
(* ussd_callback.  Text is modelled by TLA+ strings; Len, \o and SubSeq    *)
(* are the character operations of the Python code.                        *)
(***************************************************************************)
EXTENDS Integers, Sequences, FiniteSets, TLC

VARIABLES
  chatbot,        \* FALSE while the module-level chatbot is None
  conversations,  \* chatbot.conversations: phone number -> list of entries
  thr,            \* per request thread: where it is in the pipeline, its locals
  nreq,           \* SMS requests received so far
  appended,       \* per phone number, every entry passed to extend, in order
  ussd,           \* the USSD request at hand and the answer of the view
  shaped,         \* a generated text and what the reply shaping makes of it
  session         \* the answered requests of the USSD session, oldest first

vars == <<chatbot, conversations, thr, nreq, appended, ussd, shaped, session>>

(***************************************************************************)
(* Bounds of the model.                                                    *)
(***************************************************************************)
\* longest USSD trail, in tokens, that a request carries
MaxTokens == 4

\* SMS requests accepted in one run
MaxRequests == 2

\* request threads of the server that run at the same time
Threads == {"t1", "t2"}

\* phone numbers that send SMS requests
Identities == {"A", "B"}

\* the "text" field of an SMS request; the empty one is a missing field
Messages == {"", "What is 2+2?"}

\* what generate_content hands back: it raises, or returns a response with
\* no candidates, or with a candidate whose content has no parts (parts is
\* None, or with parts whose texts join to one of GenTexts: an empty text, a
\* short one, one that ends in a newline, and one that is longer than an SMS
RECURSIVE Repeat(_, _)
Repeat(c, n) ==
  IF n = 0 THEN ""
  ELSE LET half == Repeat(c, n \div 2)
       IN  half \o half \o (IF n % 2 = 1 THEN c ELSE "")
LongText == Repeat("x", 301)
GenTexts == {"", "4", "4\n", LongText}
GenOutcomes ==
  {[kind |-> k, text |-> ""] : k \in {"raise", "no_candidates", "no_parts"}}
    \cup {[kind |-> "text", text |-> t] : t \in GenTexts}

\* phone number of the USSD session
Callers == {"A"}

\* the character U+00B2, SUPERSCRIPT TWO: a digit for str.isdigit that int()
\* does not read.  Strings of the model are kept in ASCII, so it is written
\* with "^", a character no other token holds
SuperscriptTwo == "^"

\* the tokens a USSD trail is made of: menu digits, an out-of-range digit,
\* a letter, a non-decimal digit character and a phone number
Tokens == {"0", "1", "2", "3", "4", "9", "a", SuperscriptTwo, "0712345678"}

\* outcomes of requests.post(...create_order) and of self.sms.send
PayOutcomes == {"success", "failure", "exception"}
SendOutcomes == {"ok", "fail"}

(***************************************************************************)
(* Python string and list primitives used by the code.                     *)
(***************************************************************************)
Char(s, i) == SubSeq(s, i, i)

DecimalChars == {"0", "1", "2", "3", "4", "5", "6", "7", "8", "9"}

\* str.isdigit accepts every character with the Unicode property Digit,
\* which includes superscript digits that int() rejects
DigitChars == DecimalChars \cup {SuperscriptTwo}

isdigit(s) == Len(s) > 0 /\ \A i \in 1..Len(s) : Char(s, i) \in DigitChars

DigitVal(c) ==
  CASE c = "0" -> 0 [] c = "1" -> 1 [] c = "2" -> 2 [] c = "3" -> 3
    [] c = "4" -> 4 [] c = "5" -> 5 [] c = "6" -> 6 [] c = "7" -> 7
    [] c = "8" -> 8 [] c = "9" -> 9

DigitStr(d) ==
  CASE d = 0 -> "0" [] d = 1 -> "1" [] d = 2 -> "2" [] d = 3 -> "3"
    [] d = 4 -> "4" [] d = 5 -> "5" [] d = 6 -> "6" [] d = 7 -> "7"
    [] d = 8 -> "8" [] d = 9 -> "9"

\* str(n) for n >= 0, as the f-string {i+1} renders it
RECURSIVE str(_)
str(n) == IF n < 10 THEN DigitStr(n) ELSE str(n \div 10) \o DigitStr(n % 10)

WhiteSpace == {" ", "\n", "\t", "\r"}

RECURSIVE lstrip(_)
lstrip(s) ==
  IF Len(s) > 0 /\ Char(s, 1) \in WhiteSpace
  THEN lstrip(SubSeq(s, 2, Len(s))) ELSE s

RECURSIVE rstrip(_)
rstrip(s) ==
  IF Len(s) > 0 /\ Char(s, Len(s)) \in WhiteSpace
  THEN rstrip(SubSeq(s, 1, Len(s) - 1)) ELSE s

\* str.strip()
strip(s) == rstrip(lstrip(s))

RECURSIVE DecimalValue(_)
DecimalValue(s) ==
  IF Len(s) = 0 THEN 0
  ELSE 10 * DecimalValue(SubSeq(s, 1, Len(s) - 1)) + DigitVal(Char(s, Len(s)))

\* int(s): surrounding whitespace is ignored, one optional sign, then decimal
\* digits only; anything else raises ValueError (ok = FALSE)
int(s) ==
  LET t == strip(s)
      signed == Len(t) > 0 /\ Char(t, 1) \in {"+", "-"}
      body == IF signed THEN SubSeq(t, 2, Len(t)) ELSE t
      ok == Len(body) > 0 /\ \A i \in 1..Len(body) : Char(body, i) \in DecimalChars
  IN  [ok |-> ok,
       val |-> IF ~ok THEN 0
               ELSE IF signed /\ Char(t, 1) = "-" THEN 0 - DecimalValue(body)
               ELSE DecimalValue(body)]

\* s.split("*"): the pieces between the separators, empty pieces kept
RECURSIVE split(_)
split(s) ==
  IF \A i \in 1..Len(s) : Char(s, i) # "*" THEN <<s>>
  ELSE LET k == CHOOSE i \in 1..Len(s) :
                  Char(s, i) = "*" /\ \A j \in 1..(i - 1) : Char(s, j) # "*"
       IN  <<SubSeq(s, 1, k - 1)>> \o split(SubSeq(s, k + 1, Len(s)))

\* "sep".join(parts)
RECURSIVE join(_, _)
join(sep, parts) ==
  IF Len(parts) = 0 THEN ""
  ELSE IF Len(parts) = 1 THEN parts[1]
  ELSE parts[1] \o sep \o join(sep, Tail(parts))

\* lst[i] with Python's negative indices; ok = FALSE is IndexError
index(lst, i) ==
  LET n == Len(lst)
      ok == (0 - n) <= i /\ i < n
  IN  [ok |-> ok,
       val |-> IF ~ok THEN lst[1] ELSE IF i >= 0 THEN lst[i + 1] ELSE lst[n + i + 1]]

\* a maximum that is always its second argument
max_second(a, b) == b

max(a, b) == IF a >= b THEN a ELSE b

(***************************************************************************)
(* Messaging collaborator: EducationalChatbot.send_message.                *)
(***************************************************************************)
SENDER_NAME == "62772"

\* one call of self.sms.send(message, recipients, sender) and how it ended;
\* send_message catches every exception and returns a string either way
send_message(message, recipients, outcome) ==
  [message |-> message, recipients |-> recipients, sender |-> SENDER_NAME,
   outcome |-> outcome]

(***************************************************************************)
(* USSD interpreter: ussd_callback.                                        *)
(***************************************************************************)
bundles ==
  << [desc |-> "100 SMS - TSH 1000", amount |-> 1000],
     [desc |-> "250 SMS - TSH 1000", amount |-> 2000],
     [desc |-> "500 SMS - TSH 1000", amount |-> 3000] >>

\* a root menu that ends the session
MainMenu_terminal ==
  "END Welcome to EduPlatform\n1. Register\n2. About Us\n3. Buy SMS Bundle\n4. Change Language"

MainMenu ==
  "CON Welcome to EduPlatform\n1. Register\n2. About Us\n3. Buy SMS Bundle\n4. Change Language"

RegisterMenu ==
  "CON By registering, you agree to receive free daily prompts and updates.\n1. Agree\n0. Decline"

WelcomeSms ==
  "Welcome to our service! You will receive 20 free prompts daily. For extra prompts, you can purchase bundles."

LanguageMenu == "CON Select Language:\n1. English\n2. Swahili"

BundleMenu ==
  "CON Select SMS Bundle:\n"
    \o join("\n", [i \in 1..Len(bundles) |-> str(i) \o ". " \o bundles[i].desc])

\* body of the response Flask sends when the view raises
InternalServerError == "Internal Server Error"

Screen(response) == [status |-> 200, response |-> response, orders |-> <<>>, sends |-> <<>>]

\* an exception that leaves ussd_callback: no screen is produced
Fault == [status |-> 500, response |-> InternalServerError, orders |-> <<>>, sends |-> <<>>]

\* option 1, two tokens
Register(choice, phone_number, bot, sendOutcome) ==
  IF choice = "1" THEN
    IF ~bot THEN Screen("END Failed to send welcome message. Please try again later.")
    ELSE [Screen("END Registration successful! Welcome to our service.")
            EXCEPT !.sends = <<send_message(WelcomeSms, <<phone_number>>, sendOutcome)>>]
  ELSE IF choice = "0" THEN Screen("END Registration declined. Thank you for visiting.")
  ELSE Screen("END Invalid input. Please try again.")

\* option 3, two tokens
SelectBundle(bundle_index) ==
  IF isdigit(bundle_index) THEN
    IF ~int(bundle_index).ok THEN Fault
    ELSE IF 1 <= int(bundle_index).val /\ int(bundle_index).val <= Len(bundles)
         THEN Screen("CON Enter phone number to pay with:")
         ELSE Screen("END Invalid bundle selection.")
  ELSE Screen("END Invalid bundle selection.")

\* a position that is one too far
bundle_position_next(n) == n

\* bundle_index = int(text_array[1]) - 1
bundle_position(n) == n - 1

\* option 3, three tokens
BuyBundle(selection, pay_number, payOutcome) ==
  IF ~int(selection).ok THEN Fault
  ELSE LET bundle_index == bundle_position(int(selection).val)
           selected == index(bundles, bundle_index)
       IN  IF ~selected.ok THEN Fault
           ELSE LET amount_to_send == max(selected.val.amount, 1000)
                    payload == [buyer_phone |-> pay_number, amount |-> amount_to_send,
                                outcome |-> payOutcome]
                    response ==
                      IF payOutcome = "success"
                      THEN "END You selected " \o selected.val.desc
                             \o ". Payment request sent to " \o pay_number \o "."
                      ELSE IF payOutcome = "failure"
                      THEN "END Failed to initiate payment. Please try again later."
                      ELSE "END Error contacting payment service. Please try again later."
                IN  [Screen(response) EXCEPT !.orders = <<payload>>]

\* text.split("*") if text else []
TextArray(text) == IF text # "" THEN split(text) ELSE <<>>

\* the menu dispatch of the view on text_array
UssdResult(text_array, phone_number, bot, payOutcome, sendOutcome) ==
      IF text_array = <<>> \/ text_array = <<"">> THEN Screen(MainMenu)
      ELSE IF text_array[1] = "1" THEN
        IF Len(text_array) = 1 THEN Screen(RegisterMenu)
        ELSE IF Len(text_array) = 2
             THEN Register(text_array[2], phone_number, bot, sendOutcome)
             ELSE Screen("")
      ELSE IF text_array[1] = "2" THEN
        Screen("END We are an AI-powered educational SMS chatbot service.")
      ELSE IF text_array[1] = "3" THEN
        IF Len(text_array) = 1 THEN Screen(BundleMenu)
        ELSE IF Len(text_array) = 2 THEN SelectBundle(text_array[2])
        ELSE IF Len(text_array) = 3
             THEN BuyBundle(text_array[2], text_array[3], payOutcome)
             ELSE Screen("END Invalid input.")
      ELSE IF text_array[1] = "4" THEN
        IF Len(text_array) = 2 THEN
          IF text_array[2] = "1" THEN Screen("END Language changed to English.")
          ELSE IF text_array[2] = "2" THEN Screen("END Language changed to Swahili.")
          ELSE Screen("END Invalid selection.")
        ELSE Screen(LanguageMenu)
      ELSE Screen("END Invalid option. Please try again.")

\* the trails of at most MaxTokens tokens, as the gateway joins them
RECURSIVE TokenSeqs(_)
TokenSeqs(n) ==
  IF n = 0 THEN {<<>>}
  ELSE LET shorter == TokenSeqs(n - 1)
       IN  shorter \cup {Append(p, t) : p \in {q \in shorter : Len(q) = n - 1}, t \in Tokens}

Trails == {join("*", p) : p \in TokenSeqs(MaxTokens)}

\* a USSD request that has arrived and is not yet answered
UssdRequest(text, phone_number) ==
  [pc |-> "recv", text |-> text, phoneNumber |-> phone_number,
   status |-> 0, response |-> "", orders |-> <<>>, sends |-> <<>>]

\* a view that keeps the trail it has answered in the history of the caller
ussd_callback_recording ==
  /\ ussd.pc = "recv"
  /\ LET text_array == TextArray(ussd.text)
     IN  \E payOutcome \in PayOutcomes, sendOutcome \in SendOutcomes :
           LET r == UssdResult(text_array, ussd.phoneNumber, chatbot, payOutcome, sendOutcome)
           IN  ussd' = [ussd EXCEPT !.pc = "done", !.status = r.status,
                                    !.response = r.response, !.orders = r.orders,
                                    !.sends = r.sends]
  /\ conversations' =
       [k \in DOMAIN conversations \cup {ussd.phoneNumber} |->
          IF k = ussd.phoneNumber
          THEN <<[role |-> "Student", content |-> ussd.text]>>
          ELSE conversations[k]]
  /\ UNCHANGED <<chatbot, thr, nreq, appended, shaped, session>>

\* the view: one request answered, with the outcomes of the collaborators
ussd_callback ==
  /\ ussd.pc = "recv"
  /\ LET text_array == TextArray(ussd.text)
     IN  \E payOutcome \in PayOutcomes, sendOutcome \in SendOutcomes :
           LET r == UssdResult(text_array, ussd.phoneNumber, chatbot, payOutcome, sendOutcome)
           IN  ussd' = [ussd EXCEPT !.pc = "done", !.status = r.status,
                                    !.response = r.response, !.orders = r.orders,
                                    !.sends = r.sends]
  /\ UNCHANGED <<chatbot, conversations, thr, nreq, appended, shaped, session>>

\* initialize_chatbot: the module-level chatbot is None until it runs
initialize_chatbot ==
  /\ ~chatbot
  /\ chatbot' = TRUE
  /\ conversations' = <<>>
  /\ UNCHANGED <<thr, nreq, appended, ussd, shaped, session>>

(***************************************************************************)
(* Reply pipeline: sms_callback -> handle_incoming_sms ->                  *)
(* get_gemini_response -> send_message.  app.run serves every request in   *)
(* a thread of its own and sms_callback runs the coroutine on a new event  *)
(* loop of that thread, so two calls of get_gemini_response share nothing  *)
(* but self.conversations and no lock orders them.  A thread can be        *)
(* preempted between any two accesses to self.conversations, so each       *)
(* access is a step of its own.  Timestamps of entries are left out:       *)
(* nothing reads them.                                                     *)
(***************************************************************************)
MaxSmsLen == 300
HistoryCap == 20
ContextLen == 10

ContinuationSuffix == "... (reply 'more' for continuation)"
GenFallback == "I'm having trouble generating a response. Please try again."
Apology ==
  "Sorry, I'm having trouble processing your question right now. Please try again later."

\* lst[-n:]
Last(n, lst) == IF Len(lst) <= n THEN lst ELSE SubSeq(lst, Len(lst) - n + 1, Len(lst))

\* self.conversations.get(phone_number, [])
get(d, key) == IF key \in DOMAIN d THEN d[key] ELSE <<>>

\* an assignment that drops every other key
put_only(d, key, value) == [k \in {key} |-> value]

\* d[key] = value
put(d, key, value) == [k \in DOMAIN d \cup {key} |-> IF k = key THEN value ELSE d[k]]

\* the transcript of the prompt: "role: content\n" for each recent entry
RECURSIVE render(_)
render(history) ==
  IF Len(history) = 0 THEN ""
  ELSE history[1].role \o ": " \o history[1].content \o "\n" \o render(Tail(history))

\* a context that renders the whole stored history
build_context_whole(conversation_history) == render(conversation_history)

build_context(conversation_history) == render(Last(ContextLen, conversation_history))

\* the text of the response, or the exception that reading it raises
extract(outcome) ==
  IF outcome.kind = "text" THEN [ok |-> TRUE, text |-> outcome.text]
  ELSE IF outcome.kind = "no_candidates" THEN [ok |-> TRUE, text |-> ""]
  ELSE [ok |-> FALSE, text |-> ""]

\* a truncation that leaves the continuation suffix out
truncate_unmarked(ai_response) ==
  IF Len(ai_response) > MaxSmsLen
  THEN SubSeq(ai_response, 1, MaxSmsLen)
  ELSE ai_response

\* truncation of a response that is too long for SMS
truncate(ai_response) ==
  IF Len(ai_response) > MaxSmsLen
  THEN SubSeq(ai_response, 1, MaxSmsLen) \o ContinuationSuffix
  ELSE ai_response

\* the two entries one call appends
exchange(user_message, ai_response) ==
  << [role |-> "Student", content |-> user_message],
     [role |-> "Assistant", content |-> ai_response] >>

\* a reply that answers an empty text as it answers a failure
final_text_apology(ai_response) ==
  IF ai_response # "" THEN strip(ai_response)
  ELSE Apology

\* the value get_gemini_response returns on the normal path
final_text(ai_response) == IF ai_response # "" THEN strip(ai_response) ELSE GenFallback

\* reply shaping: what get_gemini_response makes of the text it has read,
\* the cut to length first and the strip, or the fallback, on return
shape(rawText) == final_text(truncate(rawText))

IdleThread ==
  [pc |-> "idle", phone_number |-> "", message |-> "", context |-> "",
   gen |-> "", ai_response |-> "", stale |-> FALSE, tmp |-> <<>>,
   pair |-> <<>>, result |-> "", sends |-> <<>>, http |-> 0]

\* the threads, other than t, that hold a reference to the list of key
Invalidate(t, key) ==
  [u \in Threads |->
     IF u # t /\ thr[u].pc = "extend" /\ thr[u].phone_number = key
     THEN [thr[u] EXCEPT !.stale = TRUE] ELSE thr[u]]

\* sms_callback up to the await of the generation call: the fields are
\* checked, the history is read and the prompt is built
sms_callback(t, phone_number, message) ==
  /\ thr[t].pc \in {"idle", "done"}
  /\ nreq < MaxRequests
  /\ nreq' = nreq + 1
  /\ thr' = [thr EXCEPT ![t] =
       IF phone_number = "" \/ message = ""
       THEN [IdleThread EXCEPT !.pc = "done", !.phone_number = phone_number,
                               !.message = message, !.http = 400]
       ELSE IF ~chatbot
       THEN [IdleThread EXCEPT !.pc = "done", !.phone_number = phone_number,
                               !.message = message, !.http = 500]
       ELSE [IdleThread EXCEPT !.pc = "generate", !.phone_number = phone_number,
                               !.message = message,
                               !.context = build_context(get(conversations, phone_number))]]
  /\ UNCHANGED <<chatbot, conversations, appended, ussd, shaped, session>>

\* the generation call comes back: the text is read and cut to length, or
\* the except branch of get_gemini_response returns the apology
generate(t, outcome) ==
  /\ thr[t].pc = "generate"
  /\ thr' = [thr EXCEPT ![t] =
       IF extract(outcome).ok
       THEN [@ EXCEPT !.pc = "check", !.gen = outcome.kind,
                      !.ai_response = truncate(extract(outcome).text)]
       ELSE [@ EXCEPT !.pc = "send", !.gen = outcome.kind, !.result = Apology]]
  /\ UNCHANGED <<chatbot, conversations, nreq, appended, ussd, shaped, session>>

\* if phone_number not in self.conversations
history_check(t) ==
  /\ thr[t].pc = "check"
  /\ thr' = [thr EXCEPT ![t].pc =
       IF thr[t].phone_number \in DOMAIN conversations THEN "load" ELSE "create"]
  /\ UNCHANGED <<chatbot, conversations, nreq, appended, ussd, shaped, session>>

\* self.conversations[phone_number] = []
history_create(t) ==
  /\ thr[t].pc = "create"
  /\ conversations' = put(conversations, thr[t].phone_number, <<>>)
  /\ thr' = [Invalidate(t, thr[t].phone_number) EXCEPT ![t].pc = "load"]
  /\ UNCHANGED <<chatbot, nreq, appended, ussd, shaped, session>>

\* self.conversations[phone_number] is evaluated: the thread holds the list
history_load(t) ==
  /\ thr[t].pc = "load"
  /\ thr' = [thr EXCEPT ![t].pc = "extend", ![t].stale = FALSE]
  /\ UNCHANGED <<chatbot, conversations, nreq, appended, ussd, shaped, session>>

\* .extend([...]) on the list the thread holds, which is the stored list
\* unless another thread has replaced it since
history_extend(t) ==
  /\ thr[t].pc = "extend"
  /\ LET key == thr[t].phone_number
         pair == exchange(thr[t].message, thr[t].ai_response)
     IN  /\ conversations' =
              IF thr[t].stale THEN conversations
              ELSE put(conversations, key, conversations[key] \o pair)
         /\ appended' = put(appended, key, get(appended, key) \o pair)
         /\ thr' = [thr EXCEPT ![t].pc = "len", ![t].pair = pair]
  /\ UNCHANGED <<chatbot, nreq, ussd, shaped, session>>

\* if len(self.conversations[phone_number]) > 20; when it is not, the call
\* returns
history_len(t) ==
  /\ thr[t].pc = "len"
  /\ thr' = [thr EXCEPT ![t] =
       IF Len(conversations[thr[t].phone_number]) > HistoryCap
       THEN [@ EXCEPT !.pc = "slice"]
       ELSE [@ EXCEPT !.pc = "send", !.result = final_text(thr[t].ai_response)]]
  /\ UNCHANGED <<chatbot, conversations, nreq, appended, ussd, shaped, session>>

\* self.conversations[phone_number][-20:] is evaluated
history_slice(t) ==
  /\ thr[t].pc = "slice"
  /\ thr' = [thr EXCEPT ![t].pc = "store",
                        ![t].tmp = Last(HistoryCap, conversations[thr[t].phone_number])]
  /\ UNCHANGED <<chatbot, conversations, nreq, appended, ussd, shaped, session>>

\* self.conversations[phone_number] = <the slice>, then the call returns
history_store(t) ==
  /\ thr[t].pc = "store"
  /\ conversations' = put(conversations, thr[t].phone_number, thr[t].tmp)
  /\ thr' = [Invalidate(t, thr[t].phone_number) EXCEPT
               ![t].pc = "send", ![t].tmp = <<>>,
               ![t].result = final_text(thr[t].ai_response)]
  /\ UNCHANGED <<chatbot, nreq, appended, ussd, shaped, session>>

\* a dispatch that sends the reply once more when the send has failed
dispatch_retry(t, sendOutcome) ==
  /\ thr[t].pc = "send"
  /\ thr' = [thr EXCEPT ![t].pc = "done", ![t].http = 200,
       ![t].sends =
         IF sendOutcome = "fail"
         THEN <<send_message(thr[t].result, <<thr[t].phone_number>>, sendOutcome),
                send_message(thr[t].result, <<thr[t].phone_number>>, sendOutcome)>>
         ELSE <<send_message(thr[t].result, <<thr[t].phone_number>>, sendOutcome)>>]
  /\ UNCHANGED <<chatbot, conversations, nreq, appended, ussd, shaped, session>>

\* handle_incoming_sms sends the reply and returns it; sms_callback answers 200
dispatch(t, sendOutcome) ==
  /\ thr[t].pc = "send"
  /\ thr' = [thr EXCEPT ![t].pc = "done", ![t].http = 200,
       ![t].sends = <<send_message(thr[t].result, <<thr[t].phone_number>>, sendOutcome)>>]
  /\ UNCHANGED <<chatbot, conversations, nreq, appended, ussd, shaped, session>>

\* no text is being shaped
NoShape == [pc |-> "none", raw |-> "", out |-> "", again |-> ""]

NoUssd ==
  [pc |-> "none", text |-> "", phoneNumber |-> "",
   status |-> 0, response |-> "", orders |-> <<>>, sends |-> <<>>]

\* the history of an identity after n exchanges answered one after the other
RECURSIVE Answered(_)
Answered(n) ==
  IF n = 0 THEN <<>> ELSE Answered(n - 1) \o exchange("What is 2+2?", "4")

\* the server starts with no chatbot and no history; so that a run of
\* MaxRequests requests meets the cap, a run may also start where the server
\* has answered HistoryCap \div 2 exchanges of identity "A" one at a time
Init ==
  /\ thr = [t \in Threads |-> IdleThread]
  /\ nreq = 0
  /\ ussd = NoUssd
  /\ shaped = NoShape
  /\ session = <<>>
  /\ \/ /\ chatbot = FALSE
        /\ conversations = <<>>
        /\ appended = <<>>
     \/ /\ chatbot = TRUE
        /\ conversations = put(<<>>, "A", Answered(HistoryCap \div 2))
        /\ appended = conversations

Next ==
  \/ initialize_chatbot
  \/ \E t \in Threads :
       \/ \E p \in Identities \cup {""}, m \in Messages : sms_callback(t, p, m)
       \/ \E o \in GenOutcomes : generate(t, o)
       \/ history_check(t)
       \/ history_create(t)
       \/ history_load(t)
       \/ history_extend(t)
       \/ history_len(t)
       \/ history_slice(t)
       \/ history_store(t)
       \/ \E so \in SendOutcomes : dispatch(t, so)

Spec == Init /\ [][Next]_vars

\* a run of the interpreter: one request, of any trail, is answered
UssdInit ==
  /\ chatbot = FALSE
  /\ conversations = <<>>
  /\ thr = [t \in Threads |-> IdleThread]
  /\ nreq = 0
  /\ appended = <<>>
  /\ ussd \in {UssdRequest(t, p) : t \in Trails, p \in Callers}
  /\ shaped = NoShape
  /\ session = <<>>

UssdNext ==
  \/ initialize_chatbot
  \/ ussd_callback

UssdSpec == UssdInit /\ [][UssdNext]_vars

(***************************************************************************)
(* Sessions of the gateway: it sends the whole trail with every request,   *)
(* starts a session with the empty trail, appends the token the user has   *)
(* entered after a screen marked CON and ends the session at any other     *)
(* answer.  Every answered request is kept, oldest first.                  *)
(***************************************************************************)
\* requests the gateway sends in one run
MaxInvocations == 6

startswith(s, p) == Len(s) >= Len(p) /\ SubSeq(s, 1, Len(p)) = p

IsContinuation(response) == startswith(response, "CON")
IsTerminal(response) == startswith(response, "END")

\* what the gateway has sent and what the view has answered and done
Answer(u) ==
  [text |-> u.text, status |-> u.status, response |-> u.response,
   orders |-> u.orders, sends |-> u.sends]

Continues(u) == u.status = 200 /\ IsContinuation(u.response)

\* the user enters a token at a screen marked CON
gateway_continue(token) ==
  /\ ussd.pc = "done"
  /\ Continues(ussd)
  /\ Len(session) + 1 < MaxInvocations
  /\ Len(TextArray(ussd.text)) < MaxTokens
  /\ session' = Append(session, Answer(ussd))
  /\ ussd' = UssdRequest(IF ussd.text = "" THEN token ELSE ussd.text \o "*" \o token,
                         ussd.phoneNumber)
  /\ UNCHANGED <<chatbot, conversations, thr, nreq, appended, shaped>>

\* the session is over; the user dials again
gateway_end ==
  /\ ussd.pc = "done"
  /\ ~Continues(ussd)
  /\ Len(session) + 1 < MaxInvocations
  /\ session' = Append(session, Answer(ussd))
  /\ ussd' = UssdRequest("", ussd.phoneNumber)
  /\ UNCHANGED <<chatbot, conversations, thr, nreq, appended, shaped>>

\* the first request of the first session has arrived; the server has no
\* chatbot yet, or has one that has answered SMS requests of identity "A"
SessionInit ==
  /\ thr = [t \in Threads |-> IdleThread]
  /\ nreq = 0
  /\ ussd \in {UssdRequest("", p) : p \in Callers}
  /\ shaped = NoShape
  /\ session = <<>>
  /\ \/ /\ chatbot = FALSE
        /\ conversations = <<>>
        /\ appended = <<>>
     \/ /\ chatbot = TRUE
        /\ conversations = put(<<>>, "A", Answered(HistoryCap \div 2))
        /\ appended = conversations

SessionNext ==
  \/ initialize_chatbot
  \/ ussd_callback
  \/ \E token \in Tokens : gateway_continue(token)
  \/ gateway_end

SessionSpec == SessionInit /\ [][SessionNext]_vars

(***************************************************************************)
(* Reply shaping on its own: a generated text is drawn, shaped, and the    *)
(* result shaped once more.                                                *)
(***************************************************************************)
\* longest run of whitespace put before and after a generated text
MaxPad == 1

RECURSIVE Paddings(_)
Paddings(n) ==
  IF n = 0 THEN {""}
  ELSE LET shorter == Paddings(n - 1)
       IN  shorter \cup {p \o c : p \in shorter, c \in {" ", "\n"}}

\* texts around the limit of MaxSmsLen characters, and well above it
Bodies ==
  {"", "4", "2 + 2 = 4", Repeat("x", MaxSmsLen - 1), Repeat("x", MaxSmsLen),
   LongText, Repeat("x", 499), Repeat("x", 500)}

RawTexts == {l \o b \o r : l \in Paddings(MaxPad), b \in Bodies, r \in Paddings(MaxPad)}

\* the text is cut to length and returned
shape_reply ==
  /\ shaped.pc = "raw"
  /\ shaped' = [shaped EXCEPT !.pc = "shaped", !.out = shape(shaped.raw)]
  /\ UNCHANGED <<chatbot, conversations, thr, nreq, appended, ussd, session>>

\* the returned text is generated again, cut to length and returned
shape_again ==
  /\ shaped.pc = "shaped"
  /\ shaped' = [shaped EXCEPT !.pc = "reshaped", !.again = shape(shaped.out)]
  /\ UNCHANGED <<chatbot, conversations, thr, nreq, appended, ussd, session>>

ShapeInit ==
  /\ chatbot = TRUE
  /\ conversations = <<>>
  /\ thr = [t \in Threads |-> IdleThread]
  /\ nreq = 0
  /\ appended = <<>>
  /\ ussd = NoUssd
  /\ shaped \in {[NoShape EXCEPT !.pc = "raw", !.raw = r] : r \in RawTexts}
  /\ session = <<>>

ShapeNext == shape_reply \/ shape_again

ShapeSpec == ShapeInit /\ [][ShapeNext]_vars

(***************************************************************************)
(* Properties of the reply pipeline.                                       *)
(***************************************************************************)
Min(a, b) == IF a <= b THEN a ELSE b

\* a call for identity id has extended the history and not yet finished
Appending(id) ==
  \E t \in Threads : thr[t].phone_number = id /\ thr[t].pc \in {"len", "slice", "store"}

Quiescent == \A t \in Threads : thr[t].pc \in {"idle", "done"}

\* thread t has answered a request for which the generation call was made
Replied(t) == thr[t].pc = "done" /\ thr[t].gen # ""

\* C1: whenever no append is in progress for an identity, its stored history
\* has length min(2N, 20), N the number of appends made for it, and is the
\* most recent entries appended, in the order they were appended
C1_HistoryIsRecentWindow ==
  \A id \in Identities :
    ~Appending(id) =>
      /\ Len(get(conversations, id)) = Min(Len(get(appended, id)), HistoryCap)
      /\ get(conversations, id) = Last(HistoryCap, get(appended, id))

\* C2: once all requests have completed, the history of every identity holds
\* the pair of every request that appended one, the oldest beyond the cap
\* dropped: no request's update is lost to another request's
C2_NoLostUpdate ==
  Quiescent =>
    \A id \in Identities :
      get(conversations, id) = Last(HistoryCap, get(appended, id))

\* C3: every call of the pipeline that has replied has appended one
\* Student/Assistant pair, whatever the generation call did
C3_EveryCallAppends ==
  \A t \in Threads : Replied(t) => Len(thr[t].pair) = 2

\* C4: the pair a call appends holds the incoming text and the text the call
\* returns
C4_PairIsIncomingAndFinal ==
  \A t \in Threads :
    (Replied(t) /\ thr[t].pair # <<>>) =>
      /\ thr[t].pair[1] = [role |-> "Student", content |-> thr[t].message]
      /\ thr[t].pair[2] = [role |-> "Assistant", content |-> thr[t].result]

\* C5 as stated: an empty or absent text, and a failure, are all answered
\* with the apology; only a non-empty text is answered with the shaped text
C5_ApologyOnEmptyOrFailure ==
  \A t \in Threads :
    Replied(t) =>
      /\ thr[t].http = 200
      /\ IF thr[t].gen \in {"raise", "no_parts"} \/ thr[t].ai_response = ""
         THEN thr[t].result = Apology
         ELSE thr[t].result = strip(thr[t].ai_response)

\* C5 amended: a failure is answered with the apology, an empty or absent
\* text with the fallback of the empty reply, a non-empty text with the
\* shaped text; the request is answered with 200 in each case
C5_FallbackByOutcome ==
  \A t \in Threads :
    Replied(t) =>
         /\ thr[t].http = 200
         /\ thr[t].gen \in {"raise", "no_parts"} => thr[t].result = Apology
         /\ (thr[t].gen \in {"no_candidates", "text"} /\ thr[t].ai_response = "")
              => thr[t].result = GenFallback
         /\ (thr[t].gen \in {"no_candidates", "text"} /\ thr[t].ai_response # "")
              => thr[t].result = strip(thr[t].ai_response)

\* a call answered a response without candidates with the fallback
C5_Witness ==
  \E t \in Threads :
    Replied(t) /\ thr[t].gen = "no_candidates" /\ thr[t].result = GenFallback

\* no send is made before the final text is there, and a call that has
\* replied has made one send, of the final text, to the calling identity
OneSendOfFinalText ==
  \A t \in Threads :
    /\ thr[t].pc # "done" => thr[t].sends = <<>>
    /\ Replied(t) =>
         /\ thr[t].http = 200
         /\ Len(thr[t].sends) = 1
         /\ thr[t].sends[1].message = thr[t].result
         /\ thr[t].sends[1].recipients = <<thr[t].phone_number>>

\* the step that sends leaves the text the call returns as it was, whether
\* the send succeeds or fails
SendKeepsFinalText ==
  \A t \in Threads :
    (thr[t].pc = "send" /\ thr'[t].pc = "done") =>
      /\ thr'[t].result = thr[t].result
      /\ thr'[t].http = 200

\* C13: every call of the pipeline sends exactly once, after the final text
\* is determined, that text to the calling identity; a failed send is not
\* retried, not propagated, and the call returns the same final text
C13_OneDispatchBestEffort == []OneSendOfFinalText /\ [][SendKeepsFinalText]_vars

\* a call has replied whose one send failed
C13_Witness ==
  \E t \in Threads :
    /\ Replied(t) /\ thr[t].http = 200
    /\ Len(thr[t].sends) = 1 /\ thr[t].sends[1].outcome = "fail"
    /\ thr[t].sends[1].message = thr[t].result

\* thread t takes up a request that goes on to the generation call
BuildsPrompt(t) == thr[t].pc \in {"idle", "done"} /\ thr'[t].pc = "generate"

\* C15 as stated: the transcript of the prompt holds every entry of the
\* stored history of the identity, up to the cap of 20, each prefixed by its
\* role, oldest first
C15_ContextIsWholeHistory ==
  [][\A t \in Threads :
       BuildsPrompt(t) =>
         thr'[t].context = render(get(conversations, thr'[t].phone_number))]_vars

\* C15 amended: the transcript holds the 10 most recent entries (5
\* exchanges) of the stored history, each prefixed by its role, oldest
\* first; older entries of the stored window are left out
C15_ContextIsLastTen ==
  [][\A t \in Threads :
       BuildsPrompt(t) =>
         LET history == get(conversations, thr'[t].phone_number)
             n == Len(history)
             recent == IF n > 10 THEN SubSeq(history, n - 9, n) ELSE history
         IN  thr'[t].context = render(recent)]_vars

\* a prompt was built for an identity with 20 stored entries from the last
\* 10 of them
C15_Witness ==
  \E t \in Threads :
    /\ thr[t].pc = "generate"
    /\ Len(get(conversations, thr[t].phone_number)) = 20
    /\ thr[t].context = render(SubSeq(conversations[thr[t].phone_number], 11, 20))
    /\ thr[t].context # render(conversations[thr[t].phone_number])

\* thread t, serving a call for identity id, takes a step
StepOfCallFor(t, id) == thr[t].phone_number = id /\ thr'[t].pc # thr[t].pc

\* the history of an identity changes only in a step of a call for it
OnlyOwnHistoryChanges ==
  \A id \in Identities :
    get(conversations', id) # get(conversations, id) =>
      \E t \in Threads : StepOfCallFor(t, id)

\* the prompt of a call is read from the history of its own identity: the
\* transcript is the rendering of entries of that history
PromptFromOwnHistory ==
  \A t \in Threads :
    BuildsPrompt(t) =>
      LET own == get(conversations, thr'[t].phone_number)
      IN  \E k \in 0..Len(own) : thr'[t].context = render(SubSeq(own, k + 1, Len(own)))

\* an identity that has a history in the store keeps one
NoHistoryDeleted == DOMAIN conversations \subseteq DOMAIN conversations'

\* C18: in every interleaving of calls, a call for an identity builds its
\* prompt from the history of that identity only and changes the history of
\* no other identity, and no step removes the history of an identity from
\* the store
C18_NoCrossIdentityVisibility ==
  [][OnlyOwnHistoryChanges /\ PromptFromOwnHistory /\ NoHistoryDeleted]_vars

\* a call for "B" has appended its pair while the 20 entries of "A" are as
\* they were
C18_Witness ==
  /\ "B" \in DOMAIN conversations /\ Len(conversations["B"]) = 2
  /\ "A" \in DOMAIN conversations /\ conversations["A"] = Answered(HistoryCap \div 2)
  /\ \E t \in Threads : thr[t].phone_number = "B" /\ thr[t].pc = "done" /\ thr[t].pair # <<>>

(***************************************************************************)
(* Properties of the USSD interpreter.                                     *)
(***************************************************************************)
UssdAnswered(n) == ussd.pc = "done" /\ Len(TextArray(ussd.text)) = n

contains(s, sub) ==
  \E i \in 1..(Len(s) - Len(sub) + 1) : SubSeq(s, i, i + Len(sub) - 1) = sub

\* the token is a decimal numeral of a position of the catalog
ValidSelection(token) ==
  /\ Len(token) > 0
  /\ \A i \in 1..Len(token) : Char(token, i) \in DecimalChars
  /\ DecimalValue(token) \in 1..Len(bundles)

\* C6: a bundle trail of three tokens whose selection is not a position of
\* the catalog yields a terminal screen and no payment order
C6_InvalidSelectionNeverPays ==
  (UssdAnswered(3) /\ TextArray(ussd.text)[1] = "3"
     /\ ~ValidSelection(TextArray(ussd.text)[2])) =>
    /\ ussd.status = 200
    /\ IsTerminal(ussd.response)
    /\ ussd.orders = <<>>

\* C7: a bundle trail of two tokens yields the invalid-selection screen when
\* the selection is not a position of the catalog and the payment-number
\* prompt when it is, and no payment order either way
C7_SelectionScreen ==
  (UssdAnswered(2) /\ TextArray(ussd.text)[1] = "3") =>
    /\ ussd.status = 200
    /\ ussd.orders = <<>>
    /\ ussd.response = IF ValidSelection(TextArray(ussd.text)[2])
                       THEN "CON Enter phone number to pay with:"
                       ELSE "END Invalid bundle selection."

PaymentFailureScreens ==
  {"END Failed to initiate payment. Please try again later.",
   "END Error contacting payment service. Please try again later."}

\* the screen of a purchase of offer k paid with number p, by payment outcome
PurchaseScreen(k, p) ==
  /\ ussd.status = 200
  /\ IsTerminal(ussd.response)
  /\ Len(ussd.orders) = 1
  /\ ussd.orders[1].outcome = "success" => contains(ussd.response, bundles[k].desc)
  /\ ussd.orders[1].outcome # "success" => ussd.response \in PaymentFailureScreens

\* C8 as stated: the trail "1*2*0712345678" yields a terminal screen, which
\* names offer 2 when the payment succeeds and reports failure when it fails
C8_TrailOneTwo ==
  (ussd.pc = "done" /\ ussd.text = "1*2*0712345678") => PurchaseScreen(2, "0712345678")

\* C8 amended: the trail "3*2*0712345678" does
C8_TrailThreeTwo ==
  (ussd.pc = "done" /\ ussd.text = "3*2*0712345678") => PurchaseScreen(2, "0712345678")

\* the purchase of offer 2 was answered after a successful payment order
C8_Witness ==
  /\ ussd.pc = "done" /\ ussd.text = "3*2*0712345678"
  /\ Len(ussd.orders) = 1 /\ ussd.orders[1].outcome = "success"
  /\ contains(ussd.response, "250 SMS - TSH 1000")

\* C9: every answer is a non-empty screen that starts with CON or with END
C9_AlwaysMarkedScreen ==
  ussd.pc = "done" =>
    /\ ussd.status = 200
    /\ ussd.response # ""
    /\ IsContinuation(ussd.response) \/ IsTerminal(ussd.response)

\* C10: in the About Us and language branches a trail with an unrecognised
\* token, and a trail of three tokens or more, yields a terminal screen
C10_ShallowBranchesTerminate ==
  (ussd.pc = "done" /\ ussd.text # "" /\ TextArray(ussd.text)[1] \in {"2", "4"}) =>
    LET text_array == TextArray(ussd.text)
    IN  /\ Len(text_array) >= 3 => IsTerminal(ussd.response)
        /\ (Len(text_array) = 2 /\ text_array[1] = "4" /\ text_array[2] \notin {"1", "2"})
             => IsTerminal(ussd.response)
        /\ (Len(text_array) >= 2 /\ text_array[1] = "2") => IsTerminal(ussd.response)

(***************************************************************************)
(* Properties of the reply shaping.                                        *)
(***************************************************************************)
endswith(s, p) == Len(s) >= Len(p) /\ SubSeq(s, Len(s) - Len(p) + 1, Len(s)) = p

Shaped == shaped.pc \in {"shaped", "reshaped"}

\* C11 as stated: an empty text gives the fallback; a text of more than 300
\* characters gives its first 300 characters followed by the suffix, which
\* is 300 + length(suffix) characters long; any other text gives the text
\* without its leading and trailing whitespace
C11_TruncatedIsExactLength ==
  Shaped =>
    /\ shaped.raw = "" => shaped.out = GenFallback
    /\ Len(shaped.raw) > 300 =>
         /\ shaped.out = SubSeq(shaped.raw, 1, 300) \o "... (reply 'more' for continuation)"
         /\ Len(shaped.out) = 300 + Len("... (reply 'more' for continuation)")
         /\ endswith(shaped.out, "... (reply 'more' for continuation)")
    /\ (shaped.raw # "" /\ Len(shaped.raw) <= 300) => shaped.out = strip(shaped.raw)

\* C11 amended: a text of more than 300 characters gives its first 300
\* characters followed by the suffix, without the leading whitespace: the
\* result ends in the suffix and is 300 + length(suffix) characters long
\* when the text does not start with whitespace, and shorter when it does;
\* the empty text gives the fallback and any other text the stripped text
C11_TruncatedThenStripped ==
  Shaped =>
    /\ shaped.raw = "" => shaped.out = GenFallback
    /\ Len(shaped.raw) > 300 =>
         /\ shaped.out =
              lstrip(SubSeq(shaped.raw, 1, 300)) \o "... (reply 'more' for continuation)"
         /\ endswith(shaped.out, "... (reply 'more' for continuation)")
         /\ IF Char(shaped.raw, 1) \in WhiteSpace
            THEN Len(shaped.out) < 300 + Len("... (reply 'more' for continuation)")
            ELSE Len(shaped.out) = 300 + Len("... (reply 'more' for continuation)")
    /\ (shaped.raw # "" /\ Len(shaped.raw) <= 300) => shaped.out = strip(shaped.raw)

\* a text of 500 characters that starts with a blank was shaped to a text
\* one character shorter than 300 + length(suffix)
C11_Witness ==
  /\ Shaped
  /\ Len(shaped.raw) = 500
  /\ Char(shaped.raw, 1) = " "
  /\ Len(shaped.out) = 299 + Len(ContinuationSuffix)

\* C12: shaping is idempotent on a text of at most 300 characters, the empty
\* and the whitespace-only texts included: shaping the shaped text gives the
\* shaped text
C12_ShapeIdempotent ==
  (shaped.pc = "reshaped" /\ Len(shaped.raw) <= 300) => shaped.again = shaped.out

\* C16: in the registration branch with one sub-input, "1" (agree) makes one
\* attempt to send the welcome message to the phone number of the session
\* and answers with the success screen when the send succeeds and with the
\* failure screen when messaging fails (no chatbot to send with, or a send
\* that fails); "0" answers with the decline screen and any other token with
\* the invalid-input screen, without a send
C16_RegistrationScreens ==
  (UssdAnswered(2) /\ TextArray(ussd.text)[1] = "1") =>
    LET choice == TextArray(ussd.text)[2]
    IN  /\ ussd.status = 200
        /\ IsTerminal(ussd.response)
        /\ ussd.orders = <<>>
        /\ choice = "1" =>
             /\ Len(ussd.sends) <= 1
             /\ ussd.sends = <<>> =>
                  ussd.response = "END Failed to send welcome message. Please try again later."
             /\ ussd.sends # <<>> =>
                  /\ ussd.sends[1].recipients = <<ussd.phoneNumber>>
                  /\ ussd.sends[1].message = WelcomeSms
                  /\ ussd.response =
                       IF ussd.sends[1].outcome = "ok"
                       THEN "END Registration successful! Welcome to our service."
                       ELSE "END Failed to send welcome message. Please try again later."
        /\ choice = "0" =>
             /\ ussd.sends = <<>>
             /\ ussd.response = "END Registration declined. Thank you for visiting."
        /\ choice \notin {"0", "1"} =>
             /\ ussd.sends = <<>>
             /\ ussd.response = "END Invalid input. Please try again."

\* the root menu: a screen marked CON that lists the four numbered options
IsRootMenu(r) ==
  /\ r.status = 200
  /\ IsContinuation(r.response)
  /\ contains(r.response, "1. Register")
  /\ contains(r.response, "2. About Us")
  /\ contains(r.response, "3. Buy SMS Bundle")
  /\ contains(r.response, "4. Change Language")
  /\ r.orders = <<>>
  /\ r.sends = <<>>

\* C17: the empty trail and the trail of one empty token are answered alike,
\* with the root menu, marked CON, and no collaborator is called; one empty
\* token joins to the empty text, and the list of one empty token is the
\* other value line 217 takes for the root menu
C17_EmptyTrailIsRootMenu ==
  (ussd.pc = "done" /\ ussd.text \in {"", join("*", <<"">>)}) =>
    /\ IsRootMenu(ussd)
    /\ \A po \in PayOutcomes, so \in SendOutcomes, bot \in BOOLEAN :
         /\ IsRootMenu(UssdResult(<<"">>, ussd.phoneNumber, bot, po, so))
         /\ UssdResult(<<"">>, ussd.phoneNumber, bot, po, so)
              = UssdResult(TextArray(ussd.text), ussd.phoneNumber, bot, po, so)

\* the empty trail was answered with a screen marked CON
C17_Witness ==
  ussd.pc = "done" /\ ussd.text = "" /\ IsContinuation(ussd.response)

\* C19: a bundle trail of three tokens with a valid selection k and a payment
\* number p makes exactly one payment order, of max(price of offer k, 1000)
\* and payer phone p, offer k being the k-th entry of the catalog; the
\* answer is terminal: the confirmation that names offer k when the order
\* succeeds, a fixed failure message when it fails or raises
C19_ValidPurchaseOrdersOnce ==
  (UssdAnswered(3) /\ TextArray(ussd.text)[1] = "3"
     /\ ValidSelection(TextArray(ussd.text)[2])) =>
    LET k == DecimalValue(TextArray(ussd.text)[2])
        pay == TextArray(ussd.text)[3]
        price == bundles[k].amount
    IN  /\ ussd.status = 200
        /\ IsTerminal(ussd.response)
        /\ Len(ussd.orders) = 1
        /\ ussd.orders[1].buyer_phone = pay
        /\ ussd.orders[1].amount = (IF price >= 1000 THEN price ELSE 1000)
        /\ ussd.orders[1].amount >= 1000
        /\ ussd.sends = <<>>
        /\ ussd.orders[1].outcome = "success" =>
             ussd.response = "END You selected " \o bundles[k].desc
                               \o ". Payment request sent to " \o pay \o "."
        /\ ussd.orders[1].outcome = "failure" =>
             ussd.response = "END Failed to initiate payment. Please try again later."
        /\ ussd.orders[1].outcome = "exception" =>
             ussd.response = "END Error contacting payment service. Please try again later."

\* offer 3 was ordered for 3000 and the payment service could not be reached
C19_Witness ==
  /\ ussd.pc = "done" /\ ussd.text = "3*3*0712345678"
  /\ Len(ussd.orders) = 1
  /\ ussd.orders[1].amount = 3000 /\ ussd.orders[1].buyer_phone = "0712345678"
  /\ ussd.orders[1].outcome = "exception"
  /\ ussd.response = "END Error contacting payment service. Please try again later."

(***************************************************************************)
(* Properties of the sessions of the gateway.                              *)
(***************************************************************************)
\* every request answered so far, oldest first
AllAnswers == session \o (IF ussd.pc = "done" THEN <<Answer(ussd)>> ELSE <<>>)

\* two requests with the same trail, for which the collaborators were
\* called alike and answered alike, got the same status and the same screen
SameTrailSameScreen ==
  \A i, j \in DOMAIN AllAnswers :
    (/\ AllAnswers[i].text = AllAnswers[j].text
     /\ AllAnswers[i].orders = AllAnswers[j].orders
     /\ AllAnswers[i].sends = AllAnswers[j].sends) =>
      /\ AllAnswers[i].status = AllAnswers[j].status
      /\ AllAnswers[i].response = AllAnswers[j].response

\* the step that answers a USSD request changes neither the histories nor
\* any other state of the server
UssdKeepsState ==
  (ussd.pc = "recv" /\ ussd'.pc = "done") =>
    UNCHANGED <<chatbot, conversations, appended, thr, nreq>>

Earlier ==
  IF ussd.text = "" THEN <<>>
  ELSE LET start == CHOOSE i \in DOMAIN session :
                      /\ session[i].text = ""
                      /\ \A j \in (i + 1)..Len(session) : session[j].text # ""
       IN  SubSeq(session, start, Len(session))

\* every request of a session is answered with a screen marked CON or END
AnsweredWithScreen ==
  /\ ussd.status = 200
  /\ IsContinuation(ussd.response) \/ IsTerminal(ussd.response)

\* a session is over after three tokens at most
EndsWithinThreeTokens ==
  /\ Len(TextArray(ussd.text)) <= 3
  /\ Len(TextArray(ussd.text)) = 3 => IsTerminal(ussd.response)

\* a payment order is the only one of its session and follows a request
\* that has validated its selection
PaysOnceWhenValidated ==
  ussd.orders # <<>> =>
    /\ Len(ussd.orders) = 1
    /\ \A i \in DOMAIN Earlier : Earlier[i].orders = <<>>
    /\ Len(TextArray(ussd.text)) = 3
    /\ Earlier # <<>>
    /\ LET selection == TextArray(ussd.text)[2]
           before == Earlier[Len(Earlier)]
       IN  /\ before.text = "3*" \o selection
           /\ before.response = "CON Enter phone number to pay with:"
           /\ ValidSelection(selection)

\* C20: in a session of the gateway every request is answered with a screen
\* marked CON or END and without a fault, a screen marked END comes after
\* three appended tokens at most, and a payment order is made at most once
\* and only with a selection the request before has validated
C20_GatewaySession ==
  ussd.pc = "done" =>
    /\ AnsweredWithScreen
    /\ EndsWithinThreeTokens
    /\ PaysOnceWhenValidated

====
